---- MODULE Spec2Model ----
(***************************************************************************)
(* Model of chart.py / grafico.py (jaime-s5/crypto-chart-plotter): the     *)
(* construction of a Chart from a market-data response, the selection of   *)
(* the optimal interval, and the buy/sell markers kept on the figure.      *)
(*                                                                         *)
(* Times are POSIX seconds, as chart.py:72-73 and 275-277 compute them.    *)
(* The two modules differ in identifiers and in the buy/sell labels only;  *)
(* the definitions below carry the names of chart.py.                      *)
(***************************************************************************)
EXTENDS Integers, Sequences, FiniteSets, TLC

VARIABLES
    arg_interval,      \* the `interval` argument of the pending constructor call
    arg_start,         \* its start date (POSIX seconds)
    arg_end,           \* its end date (POSIX seconds)
    response,          \* the HTTP response the market-data endpoint gives to it
    n_requests,        \* number of requests.get calls made so far
    optimal_interval,  \* what _get_optimal_interval returned or raised
    error,             \* exception the last call propagated to its caller ("" if none)
    chart_exists,      \* a Chart object came out of the constructor
    archivos,          \* the folder ./archivos exists
    start_date,        \* Chart.__start_date
    end_date,          \* Chart.__end_date
    fig_data,          \* Chart.__fig.data, the traces of the figure
    annotations,       \* Chart.__fig.layout.annotations
    last,              \* the last public method called on the chart (see Call)
    added,             \* history: the markers of the range added since the last delete
    html_file,         \* the file <file_path>.html
    png_file,          \* the file <file_path>.png
    browser,           \* the headless browser of save_chart_as_png
    page,              \* the page of that browser
    png_pc,            \* where __save_image_async stands
    fig_layout,        \* Chart.__fig.layout, but for its annotations
    grafico            \* a Grafico object of grafico.py, given the same calls

\* the files and the browser
export == <<html_file, png_file, browser, page, png_pc, fig_layout>>

vars == <<arg_interval, arg_start, arg_end, response, n_requests, optimal_interval,
          error, chart_exists, archivos, start_date, end_date, fig_data,
          annotations, last, added, export, grafico>>

inputs == <<arg_interval, arg_start, arg_end, response>>

-----------------------------------------------------------------------------
(* Bounds of the model *)

\* a response holds at most this many interval buckets
MaxBuckets == 3

\* dates range over 0..MaxTime seconds (a marker may lie one second beyond)
MaxTime == 21

\* at most this many markers are put on one chart
MaxMarkers == 2

-----------------------------------------------------------------------------
(* Input domains *)

\* interval labels, values of INTERVALS
Labels == {"60", "180", "300", "900"}

\* numbers of candles a bucket may hold: around the target of 500
Sizes == {0, 1, 500, 501, 502}

\* the `interval` argument: empty (the default), a label, a label the API does not know
Forced == {"", "300", "7"}

\* final status codes of the response
Statuses == {200, 300, 404, 503}

Dates == 0 .. MaxTime

RECURSIVE Mappings(_)
\* data['result']: buckets in the order of the JSON object, labels distinct
Mappings(n) ==
    IF n = 0 THEN {<<>>}
    ELSE LET shorter == Mappings(n - 1)
         IN  shorter \cup
             { Append(m, [interval |-> l, size |-> s]) :
                 m \in {x \in shorter : Len(x) = n - 1},
                 l \in Labels, s \in Sizes }

DistinctLabels(m) == \A i, j \in 1 .. Len(m) : m[i].interval = m[j].interval => i = j

Results == { m \in Mappings(MaxBuckets) : DistinctLabels(m) }

\* a response: its status, whether its body parses as JSON, and the 'result' object
Responses ==
    [status : Statuses, json : {TRUE}, result : Results] \cup
    [status : Statuses, json : {FALSE}, result : {<<>>}]

NoResponse == [status |-> 0, json |-> FALSE, result |-> <<>>]

-----------------------------------------------------------------------------
(* Values a call gives back *)

Return(v) == [kind |-> "return", val |-> v]
ReturnNone == [kind |-> "None", val |-> ""]
Raise(e) == [kind |-> "raise", val |-> e]
NotCalled == [kind |-> "not called", val |-> ""]

-----------------------------------------------------------------------------
(* _get_optimal_interval, chart.py:458-497 (_calculo_intervalo_optimo,      *)
(* grafico.py:450-488)                                                      *)

optimal_size == 500

\* `if (not time)`
is_forced_inverted(time) == time = ""

\* `if (time)`: a non-empty string is true
is_forced(time) == time # ""

\* `optimal_size <= size`
exceeds_optimal_or_equal(size) == optimal_size <= size

\* the key of the sort, and the test of the search loop
exceeds_optimal(size) == optimal_size < size

RECURSIVE sorted_intervals_unstable(_)
\* a sort that puts a bucket ahead of the earlier buckets of its size
sorted_intervals_unstable(intervals) ==
    IF intervals = <<>> THEN <<>>
    ELSE LET n      == Len(intervals)
             x      == intervals[n]
             front  == sorted_intervals_unstable(SubSeq(intervals, 1, n - 1))
             Before(y)    == y.size < x.size
             NotBefore(y) == y.size >= x.size
         IN  SelectSeq(front, Before) \o <<x>> \o SelectSeq(front, NotBefore)

RECURSIVE sorted_intervals(_)
\* dict(sorted(intervals.items(), key=lambda x: x[1])): ascending by size, stable,
\* so buckets of equal size keep the order of the response
sorted_intervals(intervals) ==
    IF intervals = <<>> THEN <<>>
    ELSE LET n      == Len(intervals)
             x      == intervals[n]
             front  == sorted_intervals(SubSeq(intervals, 1, n - 1))
             NotAfter(y) == y.size <= x.size
             After(y)    == y.size > x.size
         IN  SelectSeq(front, NotAfter) \o <<x>> \o SelectSeq(front, After)

\* the search loop: the first bucket, in sorted order, whose size exceeds the
\* optimal size; 0 when the loop ends without returning
first_exceeding(sorted) ==
    LET hits == { i \in 1 .. Len(sorted) : exceeds_optimal(sorted[i].size) }
    IN  IF hits = {} THEN 0
        ELSE CHOOSE i \in hits : \A j \in hits : i <= j

\* `[0]` in place of `[-1]`
last_interval_first(sorted) ==
    IF sorted = <<>> THEN Raise("IndexError")
    ELSE LET item == sorted[1]
         IN  IF item.size = 0 THEN ReturnNone ELSE Return(item.interval)

\* without the test `size == 0`
last_interval_unchecked(sorted) ==
    IF sorted = <<>> THEN Raise("IndexError")
    ELSE Return(sorted[Len(sorted)].interval)

\* list(sorted_intervals.items())[-1] and what follows it
last_interval(sorted) ==
    IF sorted = <<>> THEN Raise("IndexError")
    ELSE LET item == sorted[Len(sorted)]
         IN  IF item.size = 0 THEN ReturnNone ELSE Return(item.interval)

_get_optimal_interval(time, result) ==
    IF is_forced(time) THEN Return(time)
    ELSE LET sorted == sorted_intervals(result)
             found  == first_exceeding(sorted)
         IN  IF found # 0 THEN Return(sorted[found].interval)
             ELSE last_interval(sorted)

-----------------------------------------------------------------------------
(* _get_ohlcv_data, chart.py:402-455 (_obtener_datos_ohlcv, grafico.py)     *)

\* a check of the client errors alone
raise_for_status_4xx(resp) == 400 <= resp.status /\ resp.status < 500

\* Response.raise_for_status raises HTTPError for a 4xx or a 5xx status
raise_for_status(resp) == 400 <= resp.status /\ resp.status < 600

HasLabel(result, l) == \E i \in 1 .. Len(result) : result[i].interval = l

\* len(data['result'][l])
SizeOf(result, l) ==
    LET i == CHOOSE k \in 1 .. Len(result) : result[k].interval = l
    IN  result[i].size

\* What the call does: the requests it makes, what the selection gave, the
\* exception it raises ("" for none) and the number of candles it returns.
_get_ohlcv_data(interval, resp) ==
    IF raise_for_status(resp)
    THEN [requests |-> 1, selection |-> NotCalled, exc |-> "HTTPError", candles |-> 0]
    ELSE IF ~resp.json
    THEN [requests |-> 1, selection |-> NotCalled, exc |-> "JSONDecodeError", candles |-> 0]
    ELSE LET sel == _get_optimal_interval(interval, resp.result)
         IN  IF sel.kind = "raise"
             THEN [requests |-> 1, selection |-> sel, exc |-> sel.val, candles |-> 0]
             ELSE IF sel = ReturnNone
             THEN [requests |-> 1, selection |-> sel, exc |-> "Exception", candles |-> 0]
             ELSE IF ~HasLabel(resp.result, sel.val)
             THEN [requests |-> 1, selection |-> sel, exc |-> "KeyError", candles |-> 0]
             ELSE [requests |-> 1, selection |-> sel, exc |-> "",
                   candles |-> SizeOf(resp.result, sel.val)]

-----------------------------------------------------------------------------
(* The figure, chart.py:308-368 *)

\* a call of a public method: its name, its date argument and the number of
\* markers the figure carried when it was made
Call(op, date, markers) == [op |-> op, date |-> date, markers |-> markers]

NoCall == Call("none", 0, 0)

\* labels and prices of the markers the caller adds
MarkerLabels == {"b", "s"}
Prices == {40000, 52000}

\* a trace with its coordinates exchanged
Trace_swapped(type, x, y, color) == [type |-> type, x |-> y, y |-> x, color |-> color]

Trace(type, x, y, color) == [type |-> type, x |-> x, y |-> y, color |-> color]

\* __create_figure: the candlestick trace, then the volume trace, over the
\* candles of the selected bucket (y holds their number)
create_figure(candles) ==
    << Trace("candlestick", 0, candles, ""), Trace("bar", 0, candles, "#EF553B") >>

-----------------------------------------------------------------------------
(* Chart.__init__, chart.py:35-92 *)

Chart__init__(interval, resp, start, end) ==
    /\ ~chart_exists
    /\ n_requests = 0
    /\ LET data == _get_ohlcv_data(interval, resp)
       IN  /\ n_requests' = n_requests + data.requests
           /\ optimal_interval' = data.selection
           /\ error' = data.exc
           /\ IF data.exc # ""
              THEN UNCHANGED <<chart_exists, archivos, start_date, end_date,
                               fig_data, annotations>>
              ELSE /\ archivos' = TRUE
                   /\ start_date' = start
                   /\ end_date' = end
                   /\ fig_data' = create_figure(data.candles)
                   /\ annotations' = <<>>
                   /\ chart_exists' = TRUE
    /\ last' = Call("init", 0, 0)
    /\ UNCHANGED <<inputs, export>>

-----------------------------------------------------------------------------
(* Chart.__get_note_position_x, chart.py:265-287 *)

\* percentage = point_difference / difference, compared with 0.9 and 0.1.
\* Python divides two ints exactly and rounds once, and 0.9 and 0.1 are the
\* doubles nearest to 9/10 and 1/10, so for differences below 2^50 seconds the
\* comparisons agree with the comparisons of the exact quotient, made here by
\* cross-multiplication.
\* `percentage >= 0.9`
above_090_or_equal(point_difference, difference) ==
    IF difference > 0 THEN 10 * point_difference >= 9 * difference
    ELSE 10 * point_difference <= 9 * difference

above_090(point_difference, difference) ==
    IF difference > 0 THEN 10 * point_difference > 9 * difference
    ELSE 10 * point_difference < 9 * difference

below_010(point_difference, difference) ==
    IF difference > 0 THEN 10 * point_difference < difference
    ELSE 10 * point_difference > difference

get_note_position_x(point_date, start, end) ==
    LET point_difference == end - point_date
        difference       == end - start
    IN  IF difference = 0 THEN Raise("ZeroDivisionError")
        ELSE IF above_090(point_difference, difference) THEN Return(100)
        ELSE IF below_010(point_difference, difference) THEN Return(-100)
        ELSE Return(20)

-----------------------------------------------------------------------------
(* Chart.add_buy_sell_point, chart.py:117-202 *)

\* `<=` and `>=` in the range check
out_of_range_or_edge(point_date, start, end) == point_date <= start \/ point_date >= end

\* the range check of line 141: the point is discarded
out_of_range(point_date, start, end) == point_date < start \/ point_date > end

color_point(label) == IF label = "b" \/ label = "B" THEN "#bbdc86" ELSE "#e70039"

Annotation(x, y, ax) == [x |-> x, y |-> y, ax |-> ax]

add_buy_sell_point(label, price, date) ==
    /\ chart_exists
    /\ Len(fig_data) - 2 < MaxMarkers
    /\ last' = Call("add", date, Len(fig_data) - 2)
    /\ IF out_of_range(date, start_date, end_date)
       THEN /\ error' = ""
            /\ UNCHANGED <<fig_data, annotations>>
       ELSE LET pos == get_note_position_x(date, start_date, end_date)
            IN  \* append_trace comes first, then the position, then add_annotation
                /\ fig_data' = Append(fig_data, Trace("scatter", date, price, color_point(label)))
                /\ IF pos.kind = "raise"
                   THEN /\ error' = pos.val
                        /\ UNCHANGED annotations
                   ELSE /\ error' = ""
                        /\ annotations' = Append(annotations, Annotation(date, price, pos.val))
    /\ UNCHANGED <<inputs, n_requests, optimal_interval, chart_exists, archivos,
                   start_date, end_date, export>>

-----------------------------------------------------------------------------
(* Chart.delete_buy_sell_points, chart.py:204-220 *)

\* `self.__fig.data[:-1]`: the last trace alone is dropped
kept_traces_but_last(data) == SubSeq(data, 1, Len(data) - 1)

\* [self.__fig.data[0], self.__fig.data[1]]
kept_traces(data) == << data[1], data[2] >>

delete_buy_sell_points ==
    /\ chart_exists
    /\ fig_data' = kept_traces(fig_data)
    /\ annotations' = <<>>
    /\ error' = ""
    /\ last' = Call("delete", 0, Len(fig_data) - 2)
    /\ UNCHANGED <<inputs, n_requests, optimal_interval, chart_exists, archivos,
                   start_date, end_date, export>>

-----------------------------------------------------------------------------
(* Chart.save_chart_as_html, chart.py:237-251, and __set_chart_layout,     *)
(* chart.py:370-399                                                        *)

\* strftime('%d-%m-%Y'): the day of a date
day(t) == t \div 86400

\* self.__file_path, chart.py:83-88 (the pair is the same throughout)
file_path(start, end) == <<"archivos", day(start), day(end)>>

html_path(start, end) == <<file_path(start, end), "html">>
image_path(start, end) == <<file_path(start, end), "png">>

\* a file that does not exist, a page that does not exist, a layout not set
NoFile == [path |-> <<>>, traces |-> 0, annotations |-> 0]
NoPage == [url |-> <<>>, loaded |-> FALSE]
NoLayout == [title |-> <<>>, xaxis_range |-> <<>>]

\* update_layout: the title and the range of the x axis, in milliseconds,
\* widened on both sides by delta = (end - start) * 0.005
chart_layout(start, end) ==
    [title |-> <<day(start), day(end)>>,
     xaxis_range |-> <<1000 * start - 5 * (end - start), 1000 * end + 5 * (end - start)>>]

\* write_html: the document holds the traces and the annotations of the figure
written_html(start, end, data, notes) ==
    [path |-> html_path(start, end), traces |-> Len(data), annotations |-> Len(notes)]

\* a layout update that passes `annotations=[]`
save_chart_as_html_clearing ==
    /\ chart_exists
    /\ fig_layout' = chart_layout(start_date, end_date)
    /\ annotations' = <<>>
    /\ html_file' = written_html(start_date, end_date, fig_data, <<>>)
    /\ error' = ""
    /\ last' = Call("save_html", 0, Len(fig_data) - 2)
    /\ UNCHANGED <<inputs, n_requests, optimal_interval, chart_exists, archivos,
                   start_date, end_date, fig_data, png_file, browser, page, png_pc>>

save_chart_as_html ==
    /\ chart_exists
    /\ fig_layout' = chart_layout(start_date, end_date)
    /\ html_file' = written_html(start_date, end_date, fig_data, annotations)
    /\ error' = ""
    /\ last' = Call("save_html", 0, Len(fig_data) - 2)
    /\ UNCHANGED <<inputs, n_requests, optimal_interval, chart_exists, archivos,
                   start_date, end_date, fig_data, annotations, png_file, browser,
                   page, png_pc>>

-----------------------------------------------------------------------------
(* Chart.save_chart_as_png and __save_image_async, chart.py:253-306.       *)
(* asyncio.run holds the caller until the coroutine ends; every await is a *)
(* step of its own, and every one of them may raise.                       *)

\* what stays as it is while the coroutine runs
png_frame ==
    UNCHANGED <<inputs, n_requests, optimal_interval, chart_exists, archivos,
                start_date, end_date, fig_data, annotations, last>>

\* the coroutine ends with an exception
png_raises(exc) == error' = exc /\ png_pc' = "idle"

\* a coroutine that launches the browser without writing the document
save_image_begin_without_html ==
    /\ chart_exists
    /\ png_pc = "idle"
    /\ browser' = "none"
    /\ page' = NoPage
    /\ png_pc' = "launch"
    /\ error' = ""
    /\ last' = Call("save_png", 0, Len(fig_data) - 2)
    /\ UNCHANGED <<inputs, n_requests, optimal_interval, chart_exists, archivos,
                   start_date, end_date, fig_data, annotations, png_file,
                   html_file, fig_layout>>

\* lines 294-297, up to `await launch(...)`: the document is written
save_image_begin ==
    /\ chart_exists
    /\ png_pc = "idle"
    /\ fig_layout' = chart_layout(start_date, end_date)
    /\ html_file' = written_html(start_date, end_date, fig_data, annotations)
    /\ browser' = "none"
    /\ page' = NoPage
    /\ png_pc' = "launch"
    /\ error' = ""
    /\ last' = Call("save_png", 0, Len(fig_data) - 2)
    /\ UNCHANGED <<inputs, n_requests, optimal_interval, chart_exists, archivos,
                   start_date, end_date, fig_data, annotations, png_file>>

\* line 297: launch returns a browser, or raises
save_image_launch ==
    /\ png_pc = "launch"
    /\ \/ browser' = "open" /\ png_pc' = "newPage" /\ UNCHANGED error
       \/ png_raises("BrowserError") /\ UNCHANGED browser
    /\ png_frame
    /\ UNCHANGED <<html_file, png_file, page, fig_layout>>

\* line 298: newPage returns a blank page, or raises
save_image_newPage ==
    /\ png_pc = "newPage"
    /\ \/ png_pc' = "goto" /\ UNCHANGED error
       \/ png_raises("NetworkError")
    /\ png_frame
    /\ UNCHANGED <<html_file, png_file, browser, page, fig_layout>>

\* line 300: goto loads 'file://' + html_path, or raises
save_image_goto ==
    /\ png_pc = "goto"
    /\ \/ /\ page' = [url |-> html_path(start_date, end_date), loaded |-> TRUE]
          /\ png_pc' = "screenshot"
          /\ UNCHANGED error
       \/ png_raises("PageError") /\ UNCHANGED page
    /\ png_frame
    /\ UNCHANGED <<html_file, png_file, browser, fig_layout>>

\* lines 301-304: the screenshot of the loaded document is written, or raises
save_image_screenshot ==
    /\ png_pc = "screenshot"
    /\ \/ /\ png_file' = [path |-> image_path(start_date, end_date),
                          traces |-> html_file.traces,
                          annotations |-> html_file.annotations]
          /\ png_pc' = "close"
          /\ UNCHANGED error
       \/ png_raises("NetworkError") /\ UNCHANGED png_file
    /\ png_frame
    /\ UNCHANGED <<html_file, browser, page, fig_layout>>

\* line 306: the browser is closed and the call returns
save_image_close ==
    /\ png_pc = "close"
    /\ browser' = "closed"
    /\ png_pc' = "idle"
    /\ png_frame
    /\ UNCHANGED <<error, html_file, png_file, page, fig_layout>>

-----------------------------------------------------------------------------
(* grafico.py: the same operations under their Spanish names. The object   *)
(* is the record `grafico`.                                                *)

\* no Grafico object
NoGrafico ==
    [existe |-> FALSE, intervalo_optimo |-> NotCalled, error |-> "",
     fecha_inicial |-> 0, fecha_final |-> 0, data |-> <<>>, annotations |-> <<>>]

tamano_optimo == 500

RECURSIVE intervalos_ordenados(_)
\* dict(sorted(intervalos.items(), key=lambda x: x[1])), grafico.py:474
intervalos_ordenados(intervalos) ==
    IF intervalos = <<>> THEN <<>>
    ELSE LET primero == Head(intervalos)
             resto   == intervalos_ordenados(Tail(intervalos))
             Menor(y)   == y.size < primero.size
             NoMenor(y) == y.size >= primero.size
         IN  SelectSeq(resto, Menor) \o <<primero>> \o SelectSeq(resto, NoMenor)

\* _calculo_intervalo_optimo, grafico.py:450-488
_calculo_intervalo_optimo(tiempo, result) ==
    IF tiempo # "" THEN Return(tiempo)
    ELSE LET ordenados == intervalos_ordenados(result)
             mayores   == { i \in 1 .. Len(ordenados) : tamano_optimo < ordenados[i].size }
         IN  IF mayores # {}
             THEN Return(ordenados[CHOOSE i \in mayores : \A j \in mayores : i <= j].interval)
             ELSE IF ordenados = <<>> THEN Raise("IndexError")
             ELSE IF ordenados[Len(ordenados)].size = 0 THEN ReturnNone
             ELSE Return(ordenados[Len(ordenados)].interval)

\* _obtener_datos_ohlcv, grafico.py:396-447
_obtener_datos_ohlcv(intervalo, resp) ==
    IF 400 <= resp.status /\ resp.status < 600
    THEN [seleccion |-> NotCalled, exc |-> "HTTPError", velas |-> 0]
    ELSE IF ~resp.json
    THEN [seleccion |-> NotCalled, exc |-> "JSONDecodeError", velas |-> 0]
    ELSE LET sel == _calculo_intervalo_optimo(intervalo, resp.result)
             hay == \E i \in 1 .. Len(resp.result) : resp.result[i].interval = sel.val
         IN  IF sel.kind = "raise" THEN [seleccion |-> sel, exc |-> sel.val, velas |-> 0]
             ELSE IF sel = ReturnNone THEN [seleccion |-> sel, exc |-> "Exception", velas |-> 0]
             ELSE IF ~hay THEN [seleccion |-> sel, exc |-> "KeyError", velas |-> 0]
             ELSE [seleccion |-> sel, exc |-> "",
                   velas |-> resp.result[CHOOSE i \in 1 .. Len(resp.result) :
                                            resp.result[i].interval = sel.val].size]

\* __crear_figura, grafico.py:302-362
crear_figura(velas) ==
    << [type |-> "candlestick", x |-> 0, y |-> velas, color |-> ""],
       [type |-> "bar", x |-> 0, y |-> velas, color |-> "#EF553B"] >>

\* Grafico.__init__, grafico.py:34-91
Grafico__init__(intervalo, resp, inicial, final) ==
    /\ ~grafico.existe
    /\ LET datos == _obtener_datos_ohlcv(intervalo, resp)
       IN  grafico' =
             IF datos.exc # ""
             THEN [grafico EXCEPT !.intervalo_optimo = datos.seleccion, !.error = datos.exc]
             ELSE [existe |-> TRUE, intervalo_optimo |-> datos.seleccion, error |-> "",
                   fecha_inicial |-> inicial, fecha_final |-> final,
                   data |-> crear_figura(datos.velas), annotations |-> <<>>]

\* __calculo_posicion_nota, grafico.py:260-281; the quotient is compared as in
\* get_note_position_x
calculo_posicion_nota(fecha_punto, inicial, final) ==
    LET diferencia_punto == final - fecha_punto
        diferencia       == final - inicial
    IN  IF diferencia = 0 THEN Raise("ZeroDivisionError")
        ELSE IF (diferencia > 0 /\ 10 * diferencia_punto > 9 * diferencia)
                \/ (diferencia < 0 /\ 10 * diferencia_punto < 9 * diferencia)
        THEN Return(100)
        ELSE IF (diferencia > 0 /\ 10 * diferencia_punto < diferencia)
                \/ (diferencia < 0 /\ 10 * diferencia_punto > diferencia)
        THEN Return(-100)
        ELSE Return(20)

\* the test of the English module, `etiqueta == 'b' or etiqueta == 'B'`
color_punto_b(etiqueta) ==
    IF etiqueta = "b" \/ etiqueta = "B" THEN "#bbdc86" ELSE "#e70039"

\* grafico.py:159-163
color_punto(etiqueta) ==
    IF etiqueta = "c" \/ etiqueta = "C" THEN "#bbdc86" ELSE "#e70039"

\* Grafico.añadir_punto_compra_venta, grafico.py:116-201
anadir_punto_compra_venta(etiqueta, precio, fecha) ==
    /\ grafico.existe
    /\ Len(grafico.data) - 2 < MaxMarkers
    /\ IF fecha < grafico.fecha_inicial \/ fecha > grafico.fecha_final
       THEN grafico' = [grafico EXCEPT !.error = ""]
       ELSE LET pos  == calculo_posicion_nota(fecha, grafico.fecha_inicial,
                                              grafico.fecha_final)
                data == Append(grafico.data,
                               [type |-> "scatter", x |-> fecha, y |-> precio,
                                color |-> color_punto(etiqueta)])
            IN  IF pos.kind = "raise"
                THEN grafico' = [grafico EXCEPT !.data = data, !.error = pos.val]
                ELSE grafico' = [grafico EXCEPT !.data = data, !.error = "",
                                   !.annotations = Append(@, [x |-> fecha, y |-> precio,
                                                              ax |-> pos.val])]

\* Grafico.borrar_puntos_compra_venta, grafico.py:203-220
borrar_puntos_compra_venta ==
    /\ grafico.existe
    /\ grafico' = [grafico EXCEPT !.data = << @[1], @[2] >>, !.annotations = <<>>,
                                  !.error = ""]

\* the label of grafico.py for a label of chart.py: 'c' (compra) for 'b',
\* 'v' (venta) for 's'
etiqueta_de(label) == IF label = "b" THEN "c" ELSE IF label = "s" THEN "v" ELSE label

-----------------------------------------------------------------------------
(* Specifications *)

\* the history of the markers: a marker of the range is remembered
Remembered(label, price, date) ==
    IF start_date <= date /\ date <= end_date
    THEN Append(added, [label |-> label, price |-> price, date |-> date])
    ELSE added

InitObject ==
    /\ n_requests = 0
    /\ optimal_interval = NotCalled
    /\ error = ""
    /\ chart_exists = FALSE
    /\ archivos \in BOOLEAN
    /\ start_date = 0
    /\ end_date = 0
    /\ fig_data = <<>>
    /\ annotations = <<>>
    /\ last = NoCall
    /\ added = <<>>
    /\ html_file = NoFile
    /\ png_file = NoFile
    /\ browser = "none"
    /\ page = NoPage
    /\ png_pc = "idle"
    /\ fig_layout = NoLayout
    /\ grafico = NoGrafico

NoInputs ==
    /\ arg_interval = ""
    /\ arg_start = 0
    /\ arg_end = 0
    /\ response = NoResponse

\* a response with one bucket of 501 candles
GoodResponse ==
    [status |-> 200, json |-> TRUE, result |-> <<[interval |-> "300", size |-> 501]>>]

AddPoint(dates) ==
    /\ png_pc = "idle"
    /\ \E label \in MarkerLabels, price \in Prices, date \in dates :
           /\ add_buy_sell_point(label, price, date)
           /\ added' = Remembered(label, price, date)
    /\ UNCHANGED grafico

DeletePoints ==
    /\ png_pc = "idle"
    /\ delete_buy_sell_points
    /\ added' = <<>>
    /\ UNCHANGED grafico

(* Spec: the life of one chart. It is constructed over a range of ten      *)
(* seconds, a range of no length or a range that ends before it starts,    *)
(* and markers are added to it and deleted from it.                        *)

Init == NoInputs /\ InitObject

SpecStarts == {1}
SpecEnds == {0, 1, 11}
SpecDates == {0, 1, 2, 6, 10, 11, 12}

Construct ==
    /\ ~chart_exists
    /\ n_requests = 0
    /\ \E interval \in {"", "300"}, start \in SpecStarts, end \in SpecEnds :
           Chart__init__(interval, GoodResponse, start, end)
    /\ UNCHANGED <<added, grafico>>

AddSomePoint == AddPoint(SpecDates)

Next == Construct \/ AddSomePoint \/ DeletePoints

Spec == Init /\ [][Next]_vars

(* SpecFetch: the constructor alone, on every interval argument and every  *)
(* response.                                                               *)

\* responses of a status other than 200 carry at most one bucket
FetchResponses ==
    { r \in Responses : r.status = 200 \/ Len(r.result) <= 1 }

InitFetch ==
    /\ arg_interval \in Forced
    /\ arg_start = 0
    /\ arg_end = MaxTime
    /\ response \in FetchResponses
    /\ InitObject

ConstructGiven ==
    /\ Chart__init__(arg_interval, response, arg_start, arg_end)
    /\ UNCHANGED <<added, grafico>>

NextFetch == ConstructGiven

SpecFetch == InitFetch /\ [][NextFetch]_vars

(* SpecNote: a chart over any range of dates, carrying at most one marker  *)
(* at a time, the marker at any date.                                      *)

ConstructRange ==
    /\ ~chart_exists
    /\ n_requests = 0
    /\ \E start \in Dates, end \in Dates : Chart__init__("", GoodResponse, start, end)
    /\ UNCHANGED <<added, grafico>>

AddFirstPoint == Len(fig_data) = 2 /\ AddPoint(0 .. MaxTime + 1)

NextNote == ConstructRange \/ AddFirstPoint \/ DeletePoints

SpecNote == Init /\ [][NextNote]_vars

(* SpecExport: a chart with markers of one kind, saved as a document and  *)
(* as an image, any await of the image export failing or not.              *)

ExportDates == {0, 6}

ConstructExport ==
    /\ ~chart_exists
    /\ n_requests = 0
    /\ \E start \in SpecStarts, end \in SpecEnds \ {0} :
           Chart__init__("", GoodResponse, start, end)
    /\ UNCHANGED <<added, grafico>>

AddExportPoint ==
    /\ png_pc = "idle"
    /\ \E date \in ExportDates \cup {start_date} :
           /\ add_buy_sell_point("b", 40000, date)
           /\ added' = Remembered("b", 40000, date)
    /\ UNCHANGED grafico

SaveHtml == png_pc = "idle" /\ save_chart_as_html /\ UNCHANGED <<added, grafico>>

SavePngBegin == save_image_begin /\ UNCHANGED <<added, grafico>>
SavePngLaunch == save_image_launch /\ UNCHANGED <<added, grafico>>
SavePngNewPage == save_image_newPage /\ UNCHANGED <<added, grafico>>
SavePngGoto == save_image_goto /\ UNCHANGED <<added, grafico>>
SavePngScreenshot == save_image_screenshot /\ UNCHANGED <<added, grafico>>
SavePngClose == save_image_close /\ UNCHANGED <<added, grafico>>

NextExport ==
    \/ ConstructExport \/ AddExportPoint \/ DeletePoints \/ SaveHtml
    \/ SavePngBegin \/ SavePngLaunch \/ SavePngNewPage \/ SavePngGoto
    \/ SavePngScreenshot \/ SavePngClose

SpecExport == Init /\ [][NextExport]_vars

(* SpecBoth: a Chart and a Grafico given the same calls. The two          *)
(* constructors run on every interval argument and every response, as in   *)
(* SpecFetch; on the charts built from GoodResponse the markers are added  *)
(* and deleted as in SpecNote and in Spec.                                 *)

InitBoth == InitFetch \/ Init

ConstructGivenBoth ==
    /\ response # NoResponse
    /\ Chart__init__(arg_interval, response, arg_start, arg_end)
    /\ Grafico__init__(arg_interval, response, arg_start, arg_end)
    /\ UNCHANGED added

ConstructRangeBoth ==
    /\ response = NoResponse
    /\ ~chart_exists
    /\ n_requests = 0
    /\ \E start \in Dates, end \in Dates :
           /\ Chart__init__("", GoodResponse, start, end)
           /\ Grafico__init__("", GoodResponse, start, end)
    /\ UNCHANGED added

AddBoth(dates) ==
    \E label \in MarkerLabels, price \in Prices, date \in dates :
        /\ add_buy_sell_point(label, price, date)
        /\ anadir_punto_compra_venta(etiqueta_de(label), price, date)
        /\ added' = Remembered(label, price, date)

AddFirstBoth ==
    /\ response = NoResponse
    /\ chart_exists
    /\ Len(fig_data) = 2
    /\ AddBoth(0 .. MaxTime + 1)

AddNextBoth ==
    /\ response = NoResponse
    /\ chart_exists
    /\ Len(fig_data) > 2
    /\ start_date \in SpecStarts /\ end_date \in SpecEnds
    /\ \A i \in 3 .. Len(fig_data) : fig_data[i].x \in SpecDates
    /\ AddBoth(SpecDates)

DeleteBoth ==
    /\ response = NoResponse
    /\ delete_buy_sell_points
    /\ borrar_puntos_compra_venta
    /\ added' = <<>>

NextBoth ==
    \/ ConstructGivenBoth \/ ConstructRangeBoth
    \/ AddFirstBoth \/ AddNextBoth \/ DeleteBoth

SpecBoth == InitBoth /\ [][NextBoth]_vars

-----------------------------------------------------------------------------
(* Properties of the interval selection and of the fetch, under SpecFetch  *)

\* the selection ran on the response, with no interval forced by the caller
SelectedFreely == optimal_interval # NotCalled /\ arg_interval = ""

Buckets == response.result

BucketSizes == { Buckets[i].size : i \in 1 .. Len(Buckets) }

\* the selection returned a label of the response
ReturnedBucket ==
    /\ optimal_interval.kind = "return"
    /\ HasLabel(Buckets, optimal_interval.val)

ReturnedSize == SizeOf(Buckets, optimal_interval.val)

\* C1: when some bucket holds more than 500 points and no interval is forced,
\* the selection returns a label whose size is above 500 and is the smallest
\* of the sizes above 500.
C1_SmallestAbove500 ==
    (SelectedFreely /\ \E n \in BucketSizes : n > 500) =>
        /\ ReturnedBucket
        /\ ReturnedSize > 500
        /\ \A n \in BucketSizes : n > 500 => ReturnedSize <= n

\* three buckets, two of them above 500, the smaller of these neither first nor
\* last in the response
C1_Witness ==
    /\ SelectedFreely
    /\ Len(Buckets) = 3
    /\ Buckets[1].size = 502 /\ Buckets[2].size = 501 /\ Buckets[3].size = 500
    /\ optimal_interval = Return(Buckets[2].interval)

\* C2: when every bucket holds at most 500 points, one of them at least one
\* point, and no interval is forced, the selection returns a label whose size
\* is the largest size of the response; 500 itself is reached only this way.
C2_LargestWhenNoneAbove500 ==
    (/\ SelectedFreely
     /\ Buckets # <<>>
     /\ \A n \in BucketSizes : n <= 500
     /\ \E n \in BucketSizes : n > 0) =>
        /\ ReturnedBucket
        /\ \A n \in BucketSizes : n <= ReturnedSize

\* a bucket of exactly 500 points, returned ahead of smaller ones that follow it
C2_Witness ==
    /\ SelectedFreely
    /\ Len(Buckets) = 3
    /\ Buckets[1].size = 500 /\ Buckets[2].size = 0 /\ Buckets[3].size = 1
    /\ optimal_interval = Return(Buckets[1].interval)

C4_ForcedReturned ==
    (optimal_interval # NotCalled /\ arg_interval # "") =>
        optimal_interval = Return(arg_interval)

\* a forced label that no API knows, on a response without buckets
C4_Witness ==
    /\ arg_interval = "7"
    /\ Buckets = <<>>
    /\ response.json
    /\ optimal_interval = Return("7")

C9_EmptyMappingEmptyDataset ==
    (n_requests > 0 /\ arg_interval = "" /\ ~raise_for_status(response)
        /\ response.json /\ Buckets = <<>>) =>
        optimal_interval = Raise("EmptyDataset")

-----------------------------------------------------------------------------
(* Properties of the markers, under SpecNote and Spec                      *)

InRange(t) == start_date <= t /\ t <= end_date

MarkerTraces == Len(fig_data) - 2

\* C5: add_buy_sell_point puts the marker on the chart exactly when
\* start <= date <= end. A date before the start or after the end leaves
\* traces and annotations as they were and raises nothing; a date inside the
\* range, its two ends included, appends the marker's trace, and on a range
\* of some length its annotation too.
C5_AddedIffInRange ==
    [][ last'.op = "add" =>
          IF InRange(last'.date)
          THEN /\ Len(fig_data') = Len(fig_data) + 1
               /\ SubSeq(fig_data', 1, Len(fig_data)) = fig_data
               /\ fig_data'[Len(fig_data')].type = "scatter"
               /\ fig_data'[Len(fig_data')].x = last'.date
               /\ start_date < end_date =>
                    /\ error' = ""
                    /\ Len(annotations') = Len(annotations) + 1
                    /\ annotations'[Len(annotations')].x = last'.date
          ELSE /\ fig_data' = fig_data
               /\ annotations' = annotations
               /\ error' = ""
      ]_vars

\* a marker at the very end of a range of some length is on the chart
C5_Witness ==
    /\ last.op = "add"
    /\ last.date = end_date
    /\ start_date < end_date
    /\ MarkerTraces = 1
    /\ fig_data[3].x = end_date
    /\ Len(annotations) = 1

\* the offset the claim gives for a point, by the exact quotient
\* (end - point) / (end - start) of a range with start < end
ClaimedOffset(point) ==
    LET remaining == end_date - point
        length    == end_date - start_date
    IN  IF 10 * remaining > 9 * length THEN 100
        ELSE IF 10 * remaining < length THEN 0 - 100
        ELSE 20

\* C6: on a range with start < end the annotation of a point of the range is
\* offset by 100 when more than 0.9 of the range remains after it, by -100
\* when less than 0.1 remains, by 20 otherwise: exactly 0.9 and exactly 0.1
\* give 20, the start gives 100, the end gives -100.
C6_AnnotationOffset ==
    (last.op = "add" /\ start_date < end_date /\ InRange(last.date)) =>
        /\ error = ""
        /\ annotations # <<>>
        /\ LET a == annotations[Len(annotations)]
               remaining == end_date - a.x
               length == end_date - start_date
           IN  /\ a.x = last.date
               /\ a.ax = ClaimedOffset(a.x)
               /\ 10 * remaining = 9 * length => a.ax = 20
               /\ 10 * remaining = length => a.ax = 20
               /\ a.x = start_date => a.ax = 100
               /\ a.x = end_date => a.ax = 0 - 100

\* exactly 0.9 of the range remains after the point, and the offset is 20
C6_Witness ==
    /\ last.op = "add"
    /\ start_date < end_date
    /\ 10 * (end_date - last.date) = 9 * (end_date - start_date)
    /\ annotations # <<>>
    /\ annotations[Len(annotations)].ax = 20

\* C7: delete_buy_sell_points leaves the candlestick trace and the volume
\* trace, in this order, and no annotation, however many markers there were;
\* a second call changes nothing.
C7_DeleteLeavesBaseTraces ==
    [][ last'.op = "delete" =>
          /\ fig_data' = SubSeq(fig_data, 1, 2)
          /\ Len(fig_data') = 2
          /\ fig_data'[1].type = "candlestick"
          /\ fig_data'[2].type = "bar"
          /\ annotations' = <<>>
          /\ last.op = "delete" => fig_data' = fig_data /\ annotations' = annotations
      ]_vars

\* a delete on a chart that carried two markers
C7_Witness ==
    /\ last.op = "delete"
    /\ last.markers = 2
    /\ Len(fig_data) = 2
    /\ annotations = <<>>

\* C10 as stated: on a range of no length, the offset of a marker at its only
\* instant fails with a DegenerateRange error, not with a division by zero.
C10_DegenerateRangeError ==
    (last.op = "add" /\ start_date = end_date /\ last.date = start_date) =>
        error = "DegenerateRange"

-----------------------------------------------------------------------------
(* Ties of the interval selection, under SpecFetch                         *)

\* positions in the response of the buckets of size n
PositionsOfSize(n) == { i \in 1 .. Len(Buckets) : Buckets[i].size = n }

SizesAbove500 == { n \in BucketSizes : n > 500 }

SmallestAbove500 == CHOOSE n \in SizesAbove500 : \A k \in SizesAbove500 : n <= k

LargestSize == CHOOSE n \in BucketSizes : \A k \in BucketSizes : k <= n

FirstOf(positions) == CHOOSE i \in positions : \A j \in positions : i <= j

LastOf(positions) == CHOOSE i \in positions : \A j \in positions : j <= i

\* C12: equal sizes keep the order of the response. Of the buckets that share
\* the smallest size above 500 the first of the response is returned; when no
\* size is above 500, of the buckets that share the largest size, if it is not
\* 0, the last of the response is returned.
C12_TiesByResponseOrder ==
    (SelectedFreely /\ Buckets # <<>>) =>
        IF SizesAbove500 # {}
        THEN optimal_interval =
                 Return(Buckets[FirstOf(PositionsOfSize(SmallestAbove500))].interval)
        ELSE LargestSize > 0 =>
                 optimal_interval =
                     Return(Buckets[LastOf(PositionsOfSize(LargestSize))].interval)

\* two buckets of 501 points after one of 502: the first of the two is returned
C12_Witness ==
    /\ SelectedFreely
    /\ Len(Buckets) = 3
    /\ Buckets[1].size = 502 /\ Buckets[2].size = 501 /\ Buckets[3].size = 501
    /\ optimal_interval = Return(Buckets[2].interval)

-----------------------------------------------------------------------------
(* Properties of the markers over sequences of calls, under Spec           *)

\* C13: on a range with start < end, after any adds and deletes, the marker
\* traces are the markers of the range added since the last delete (or since
\* the construction), in the order of their adds, each at its date and price.
C13_MarkersAreThoseAdded ==
    (chart_exists /\ start_date < end_date) =>
        /\ Len(fig_data) = 2 + Len(added)
        /\ \A i \in 1 .. Len(added) :
              /\ fig_data[2 + i].type = "scatter"
              /\ fig_data[2 + i].x = added[i].date
              /\ fig_data[2 + i].y = added[i].price

\* two markers of different dates and prices, the second added after the first
C13_Witness ==
    /\ chart_exists
    /\ start_date < end_date
    /\ Len(added) = 2
    /\ added[1].date > added[2].date
    /\ added[1].price # added[2].price
    /\ last.op = "add" /\ last.markers = 1
    /\ fig_data[3].x = added[1].date /\ fig_data[4].x = added[2].date

\* C16 as stated: a chart always carries as many marker traces as annotations,
\* also after an add that ended with an error.
C16_TracesMatchAnnotations ==
    chart_exists => Len(fig_data) - 2 = Len(annotations)

-----------------------------------------------------------------------------
(* Properties of the exports, under SpecExport                             *)

\* C11: save_chart_as_html leaves the traces and the annotations of the
\* figure as they were, after any adds and deletes, and the document it
\* writes carries as many of each as the figure.
C11_HtmlExportPreservesMarkers ==
    [][ last'.op = "save_html" =>
          /\ fig_data' = fig_data
          /\ annotations' = annotations
          /\ html_file'.traces = Len(fig_data)
          /\ html_file'.annotations = Len(annotations)
      ]_vars

\* a chart with two markers and their annotations was exported
C11_Witness ==
    /\ last.op = "save_html"
    /\ last.markers = 2
    /\ Len(fig_data) = 4
    /\ Len(annotations) = 2
    /\ html_file.traces = 4
    /\ html_file.annotations = 2

HtmlPath == html_path(start_date, end_date)
ImagePath == image_path(start_date, end_date)

\* the document on disk is the one of the figure as it stands
HtmlWritten == html_file = written_html(start_date, end_date, fig_data, annotations)

\* C14: the steps of save_chart_as_png come in one order, on paths of one
\* base: the document is written to <base>.html before the browser is
\* launched, the page loads that file after the launch, the screenshot goes to
\* <base>.png after the load, and the call returns after the screenshot; the
\* folder ./archivos exists from the construction on.
C14_PngStepsInOrder ==
    [][ /\ chart_exists' => archivos'
        /\ (browser' = "open" /\ browser # "open") => HtmlWritten
        /\ (page'.loaded /\ ~page.loaded) =>
              /\ browser = "open"
              /\ HtmlWritten
              /\ page'.url = html_file.path
        /\ png_file' # png_file =>
              /\ page.loaded
              /\ page.url = HtmlPath
              /\ png_file'.path = ImagePath
              /\ ImagePath[1] = HtmlPath[1]
        /\ (png_pc # "idle" /\ png_pc' = "idle" /\ error' = "") =>
              /\ png_pc = "close"
              /\ png_file.path = ImagePath
              /\ png_file.traces = Len(fig_data)
      ]_vars

\* a call of save_chart_as_png on a chart with a marker returned, the image written
C14_Witness ==
    /\ last.op = "save_png"
    /\ last.markers = 1
    /\ png_pc = "idle"
    /\ error = ""
    /\ browser = "closed"
    /\ page.loaded
    /\ png_file.path = ImagePath
    /\ html_file.path = HtmlPath

\* C17 as stated: when a call of save_chart_as_png has ended, with or without
\* an error, the browser it launched is not left open.
C17_BrowserClosedAtEnd ==
    (last.op = "save_png" /\ png_pc = "idle") => browser # "open"

-----------------------------------------------------------------------------
(* The two modules, under SpecBoth                                         *)

\* C15: chart.py and grafico.py behave alike. On every interval argument and
\* response the two selections give the same result or fail alike; on every
\* range and point the two annotation offsets are equal; after every sequence
\* of adds and deletes with corresponding labels the two objects hold as many
\* traces and annotations, the traces of the same colours.
C15_ModulesAgree ==
    /\ grafico.intervalo_optimo = optimal_interval
    /\ grafico.error = error
    /\ grafico.existe = chart_exists
    /\ Len(grafico.data) = Len(fig_data)
    /\ Len(grafico.annotations) = Len(annotations)
    /\ \A i \in 1 .. Len(fig_data) : grafico.data[i].color = fig_data[i].color
    /\ \A i \in 1 .. Len(annotations) : grafico.annotations[i].ax = annotations[i].ax

\* both objects carry a buy marker and a sell marker, in the two colours
C15_Witness ==
    /\ chart_exists /\ grafico.existe
    /\ Len(fig_data) = 4 /\ Len(grafico.data) = 4
    /\ fig_data[3].color = "#bbdc86" /\ grafico.data[3].color = "#bbdc86"
    /\ fig_data[4].color = "#e70039" /\ grafico.data[4].color = "#e70039"
    /\ Len(grafico.annotations) = 2

====
